---- MODULE Spec2Model ----
(***************************************************************************)
(* Model of the SSSOM Java model generator (src/linkml/custom-javagen.py):  *)
(* the Jinja class template and the classes it renders.  The template is    *)
(* evaluated over a class definition (ClassFields) and the bounds of the    *)
(* constrained slot; the rendered Mapping / MappingSet objects live in a    *)
(* heap of records, lists and maps, so that references (and their sharing)  *)
(* are part of the state.                                                   *)
(***************************************************************************)
EXTENDS Integers, Sequences, FiniteSets, TLC

VARIABLES
    bounds,   \* schema: [min, max] of the similarity_score slot (None or Some(n))
    recs,     \* heap of Mapping objects, in allocation order
    lists,    \* heap of List<String> objects: contents, in allocation order
    maps,     \* heap of Map<String,ExtensionValue> objects: key -> value text
    origin,   \* per Mapping: the object it was inverted from (0: built) and the predicate used
    mset,     \* one MappingSet object: curieMap, mappings, extensionDefinitions
    op,       \* the last call: [name, self, arg]
    res,      \* what the last call returned: [kind, ref, str]
    slot,     \* generator input: the field whose declaration is being rendered
    jtype     \* generator output: the rendered Java type of that field

vars == <<bounds, recs, lists, maps, origin, mset, op, res, slot, jtype>>

-----------------------------------------------------------------------------
(* Optional values: Java null / Python None is the empty tuple.             *)

None == <<>>
Some(v) == <<v>>
IsSet(o) == o # None
Val(o) == o[1]

(* Bounds of the model. *)
MaxRecs == 3
MaxListLen == 2
MaxEncLen == 3

-----------------------------------------------------------------------------
(* The class definition the template is rendered for: the fields of         *)
(* Mapping, in declaration order.  name is the Java field name, slot the    *)
(* source slot name, srange the slot's declared range, range the Java type  *)
(* computed by the base generator.                                          *)

Field(name, slotname, srange, range, multivalued) ==
    [name |-> name, slot |-> slotname, srange |-> srange, range |-> range,
     multivalued |-> multivalued]

ClassFields ==
    << Field("recordId", "record_id", "NonRelativeURI", "String", FALSE),
       Field("subjectId", "subject_id", "EntityReference", "String", FALSE),
       Field("subjectLabel", "subject_label", "string", "String", FALSE),
       Field("predicateId", "predicate_id", "EntityReference", "String", FALSE),
       Field("objectId", "object_id", "EntityReference", "String", FALSE),
       Field("objectLabel", "object_label", "string", "String", FALSE),
       Field("mappingCardinality", "mapping_cardinality", "mapping_cardinality_enum",
             "String", FALSE),
       Field("authorId", "author_id", "EntityReference", "List<String>", TRUE),
       Field("similarityScore", "similarity_score", "double", "Double", FALSE) >>

-----------------------------------------------------------------------------
(* Field type selection (template lines 63-69): an if/elif chain on the     *)
(* declared range, then on the slot name, then the base generator's type.   *)

FieldTypeNoCurieMap(f) ==
    IF f.srange = "date" THEN "LocalDate"
    ELSE IF f.srange = "mapping_cardinality_enum" THEN "MappingCardinality"
    ELSE IF f.srange = "entity_type_enum" THEN "EntityType"
    ELSE IF f.srange = "predicate_modifier_enum" THEN "PredicateModifier"
    ELSE IF f.srange = "sssom_version_enum" THEN "Version"
    ELSE f.range

FieldType(f) ==
    IF f.srange = "date" THEN "LocalDate"
    ELSE IF f.srange = "mapping_cardinality_enum" THEN "MappingCardinality"
    ELSE IF f.srange = "entity_type_enum" THEN "EntityType"
    ELSE IF f.srange = "predicate_modifier_enum" THEN "PredicateModifier"
    ELSE IF f.srange = "sssom_version_enum" THEN "Version"
    ELSE IF f.slot = "curie_map" THEN "Map<String,String>"
    ELSE f.range

EnumRanges ==
    {"date", "mapping_cardinality_enum", "entity_type_enum",
     "predicate_modifier_enum", "sssom_version_enum"}

-----------------------------------------------------------------------------
(* Strings.  Java compares strings by UTF-16 code unit, then by length.     *)

CharCode(c) ==
    CASE c = "1" -> 49 [] c = "2" -> 50 [] c = ":" -> 58
      [] c = "A" -> 65 [] c = "B" -> 66 [] c = "Z" -> 90
      [] c = "a" -> 97 [] c = "b" -> 98 [] c = "k" -> 107
      [] OTHER -> 0

RECURSIVE CompareTo(_, _)
CompareTo(a, b) ==
    IF Len(a) = 0 \/ Len(b) = 0 THEN Len(a) - Len(b)
    ELSE IF SubSeq(a, 1, 1) # SubSeq(b, 1, 1)
         THEN CharCode(SubSeq(a, 1, 1)) - CharCode(SubSeq(b, 1, 1))
         ELSE CompareTo(SubSeq(a, 2, Len(a)), SubSeq(b, 2, Len(b)))

(* A stable ascending sort (Collections.sort, List.sort): each element is   *)
(* inserted after the elements that do not compare greater than it.         *)
RECURSIVE Insert(_, _)
Insert(sorted, x) ==
    IF sorted = <<>> THEN <<x>>
    ELSE IF CompareTo(x, Head(sorted)) < 0 THEN <<x>> \o sorted
         ELSE <<Head(sorted)>> \o Insert(Tail(sorted), x)

SortNone(seq) == seq

RECURSIVE Sort(_)
Sort(seq) ==
    IF seq = <<>> THEN <<>>
    ELSE Insert(Sort(SubSeq(seq, 1, Len(seq) - 1)), seq[Len(seq)])

RECURSIVE Concat(_)
Concat(strs) == IF strs = <<>> THEN "" ELSE Head(strs) \o Concat(Tail(strs))

(* DecimalFormat("#.###") with RoundingMode.HALF_UP.  A Double is modelled   *)
(* as an exact count of ten-thousandths: 8675 is 0.8675.                     *)
Abs(n) == IF n < 0 THEN -n ELSE n

FracDigits(fr) ==
    IF fr = 0 THEN ""
    ELSE IF fr % 100 = 0 THEN "." \o ToString(fr \div 100)
    ELSE IF fr % 10 = 0 THEN "." \o (IF fr < 100 THEN "0" ELSE "") \o ToString(fr \div 10)
    ELSE "." \o (IF fr < 10 THEN "00" ELSE IF fr < 100 THEN "0" ELSE "") \o ToString(fr)

FormatDouble(n) ==
    LET t == (Abs(n) + 5) \div 10
    IN  (IF n < 0 THEN "-" ELSE "") \o ToString(t \div 1000) \o FracDigits(t % 1000)

(* String.format("%d:%s", v.length(), v) *)
Atom(v) == ToString(Len(v)) \o ":" \o v

-----------------------------------------------------------------------------
(* Generator helpers (CustomJavaGenerator).                                 *)

Bounds(min, max) == [min |-> min, max |-> max]

(* The bounds of a field's source slot: only similarity_score carries any. *)
SlotBounds(f, b) == IF f.slot = "similarity_score" THEN b ELSE Bounds(None, None)

(* is_slot_constrained: either bound "is not None". *)
IsSlotConstrained(f, b) == IsSet(SlotBounds(f, b).min) \/ IsSet(SlotBounds(f, b).max)

(* get_constrained_slots *)
ConstrainedSlots(fields, b) == SelectSeq(fields, LAMBDA f : IsSlotConstrained(f, b))

(* get_slot_suffixes: f.name[n:] for the fields whose name starts with prefix. *)
StartsWith(str, prefix) ==
    Len(str) >= Len(prefix) /\ SubSeq(str, 1, Len(prefix)) = prefix

SlotSuffixes(fields, prefix) ==
    LET sel == SelectSeq(fields, LAMBDA f : StartsWith(f.name, prefix))
    IN  [k \in 1..Len(sel) |-> SubSeq(sel[k].name, Len(prefix) + 1, Len(sel[k].name))]

(* Jinja truthiness of a bound, as tested by "if f.source_slot.maximum_value":  *)
(* None and 0 are both false.                                                 *)
Truthy(o) == IsSet(o) /\ Val(o) # 0

(* Which checks the rendered setter contains (template lines 80, 85). *)
MaxCheckRendered(b) == Truthy(b.max)
MinCheckRendered(b) == IsSet(b.min)

-----------------------------------------------------------------------------
(* Collaborators that are not part of the generator: the predicate table    *)
(* (CommonPredicate) and the cardinality enumeration (MappingCardinality).  *)

PredicateTable ==
    [p \in {"skos:exactMatch", "skos:broadMatch", "skos:narrowMatch", "rdfs:subClassOf"} |->
        CASE p = "skos:exactMatch" -> [invertible |-> TRUE, inverse |-> Some("skos:exactMatch")]
          [] p = "skos:broadMatch" -> [invertible |-> TRUE, inverse |-> Some("skos:narrowMatch")]
          [] p = "skos:narrowMatch" -> [invertible |-> TRUE, inverse |-> Some("skos:broadMatch")]
          [] p = "rdfs:subClassOf" -> [invertible |-> FALSE, inverse |-> None]]

(* CommonPredicate.fromString: the table entry, or null *)
FromString(pid) ==
    IF IsSet(pid) /\ Val(pid) \in DOMAIN PredicateTable
    THEN Some(PredicateTable[Val(pid)]) ELSE None

(* MappingCardinality.getInverse *)
CardinalityInverse(c) ==
    CASE c = "1:n" -> "n:1"
      [] c = "n:1" -> "1:n"
      [] c = "1:0" -> "0:1"
      [] c = "0:1" -> "1:0"
      [] OTHER -> c

-----------------------------------------------------------------------------
(* The rendered Mapping class.  A Mapping object is a record over the Java  *)
(* field names; scalar fields hold None or Some(value), authorId holds a    *)
(* reference into lists and extensions a reference into maps (0 is null).   *)

NullRef == 0

Call(name, self, arg, flag) == [name |-> name, self |-> self, arg |-> arg, flag |-> flag]
Result(kind, ref, str) == [kind |-> kind, ref |-> ref, str |-> str]
Returned(kind, ref) == Result(kind, ref, "")
Built == [from |-> 0, pred |-> None]

(* Lombok builder: build() calls the all-args constructor, which assigns   *)
(* every field as given.  A collection passed to the builder becomes the   *)
(* object's collection; here each one is a fresh object.                   *)
Build(in) ==
    /\ Len(recs) < MaxRecs
    /\ LET lref == IF IsSet(in.authorId) THEN Len(lists) + 1 ELSE NullRef
           mref == IF IsSet(in.extensions) THEN Len(maps) + 1 ELSE NullRef
       IN  /\ lists' = IF IsSet(in.authorId) THEN Append(lists, Val(in.authorId)) ELSE lists
           /\ maps' = IF IsSet(in.extensions) THEN Append(maps, Val(in.extensions)) ELSE maps
           /\ recs' = Append(recs, [in EXCEPT !.authorId = lref, !.extensions = mref])
    /\ origin' = Append(origin, Built)
    /\ op' = Call("build", Len(recs) + 1, None, FALSE)
    /\ res' = Returned("rec", Len(recs) + 1)
    /\ UNCHANGED <<bounds, mset, slot, jtype>>

(* toBuilder() copies every field value (references included) into a new   *)
(* builder; similarityScore(v) on the builder assigns without any check.   *)
ToBuilderBuild(i, v) ==
    /\ i \in 1..Len(recs) /\ Len(recs) < MaxRecs
    /\ recs' = Append(recs, [recs[i] EXCEPT !.similarityScore = Some(v)])
    /\ origin' = Append(origin, Built)
    /\ op' = Call("toBuilder", i, Some(v), FALSE)
    /\ res' = Returned("rec", Len(recs) + 1)
    /\ UNCHANGED <<bounds, lists, maps, mset, slot, jtype>>

(* The setter of a constrained field (template lines 79-91); a field that  *)
(* is not constrained keeps the plain setter of @Data.                     *)
HasCheckedSetter(name, b) ==
    LET constrained == ConstrainedSlots(ClassFields, b)
    IN  \E k \in 1..Len(constrained) : constrained[k].name = name

SetterRejects(b, v) ==
    /\ HasCheckedSetter("similarityScore", b)
    /\ \/ MaxCheckRendered(b) /\ v > Val(b.max)
       \/ MinCheckRendered(b) /\ v < Val(b.min)

SetSimilarityScore(i, v) ==
    /\ i \in 1..Len(recs)
    /\ IF SetterRejects(bounds, v)
       THEN /\ res' = Result("exc", NullRef, "IllegalArgumentException")
            /\ UNCHANGED recs
       ELSE /\ res' = Returned("void", NullRef)
            /\ recs' = [recs EXCEPT ![i].similarityScore = Some(v)]
    /\ op' = Call("setSimilarityScore", i, Some(v), FALSE)
    /\ UNCHANGED <<bounds, lists, maps, origin, mset, slot, jtype>>

(* Deprecated alias (template lines 315-317): calls setSimilarityScore. *)
SetSemanticSimilarityScore(i, v) ==
    /\ i \in 1..Len(recs)
    /\ IF SetterRejects(bounds, v)
       THEN /\ res' = Result("exc", NullRef, "IllegalArgumentException")
            /\ UNCHANGED recs
       ELSE /\ res' = Returned("void", NullRef)
            /\ recs' = [recs EXCEPT ![i].similarityScore = Some(v)]
    /\ op' = Call("setSemanticSimilarityScore", i, Some(v), FALSE)
    /\ UNCHANGED <<bounds, lists, maps, origin, mset, slot, jtype>>

-----------------------------------------------------------------------------
(* Mapping.invert(String) (template lines 211-229).  The builder calls     *)
(* .subjectX(objectX).objectX(subjectX) are rendered once per suffix X; the *)
(* arguments are fields of this object, not of the builder.                *)

RECURSIVE SwapPairsFromBuilder(_, _, _)
SwapPairsFromBuilder(b, r, sfx) ==
    IF sfx = <<>> THEN b
    ELSE LET s1 == [b EXCEPT !["subject" \o Head(sfx)] = b["object" \o Head(sfx)]]
             s2 == [s1 EXCEPT !["object" \o Head(sfx)] = s1["subject" \o Head(sfx)]]
         IN  SwapPairsFromBuilder(s2, r, Tail(sfx))

RECURSIVE SwapPairs(_, _, _)
SwapPairs(b, r, sfx) ==
    IF sfx = <<>> THEN b
    ELSE SwapPairs([b EXCEPT !["subject" \o Head(sfx)] = r["object" \o Head(sfx)],
                             !["object" \o Head(sfx)] = r["subject" \o Head(sfx)]],
                   r, Tail(sfx))

InvertedKeepPredicate(r, p) ==
    LET b == SwapPairs(r, r, SlotSuffixes(ClassFields, "subject"))
    IN  IF IsSet(r.mappingCardinality)
        THEN [b EXCEPT !.mappingCardinality = Some(CardinalityInverse(Val(r.mappingCardinality)))]
        ELSE b

Inverted(r, p) ==
    LET b == SwapPairs([r EXCEPT !.predicateId = Some(p)], r,
                       SlotSuffixes(ClassFields, "subject"))
    IN  IF IsSet(r.mappingCardinality)
        THEN [b EXCEPT !.mappingCardinality = Some(CardinalityInverse(Val(r.mappingCardinality)))]
        ELSE b

InvertWith(i, p) ==
    /\ i \in 1..Len(recs) /\ (p = None \/ Len(recs) < MaxRecs)
    /\ IF p = None
       THEN /\ res' = Returned("null", NullRef)
            /\ UNCHANGED <<recs, origin>>
       ELSE /\ recs' = Append(recs, Inverted(recs[i], Val(p)))
            /\ origin' = Append(origin, [from |-> i, pred |-> p])
            /\ res' = Returned("rec", Len(recs) + 1)
    /\ op' = Call("invert", i, p, FALSE)
    /\ UNCHANGED <<bounds, lists, maps, mset, slot, jtype>>

(* Mapping.invert() (template lines 294-301). *)
AutoPredicateSame(r) ==
    LET predicate == FromString(r.predicateId)
    IN  IF predicate = None \/ ~Val(predicate).invertible THEN None ELSE r.predicateId

AutoPredicate(r) ==
    LET predicate == FromString(r.predicateId)
    IN  IF predicate = None \/ ~Val(predicate).invertible THEN None
        ELSE Val(predicate).inverse

InvertAuto(i) ==
    /\ i \in 1..Len(recs) /\ (AutoPredicate(recs[i]) = None \/ Len(recs) < MaxRecs)
    /\ LET p == AutoPredicate(recs[i])
       IN  IF p = None
           THEN /\ res' = Returned("null", NullRef)
                /\ UNCHANGED <<recs, origin>>
           ELSE /\ recs' = Append(recs, Inverted(recs[i], Val(p)))
                /\ origin' = Append(origin, [from |-> i, pred |-> p])
                /\ res' = Returned("rec", Len(recs) + 1)
    /\ op' = Call("invertAuto", i, None, FALSE)
    /\ UNCHANGED <<bounds, lists, maps, mset, slot, jtype>>

-----------------------------------------------------------------------------
(* Initialize-if-absent accessors (template lines 103-108, 122-127).       *)

GetAuthorIdAlwaysNew(i, set) ==
    /\ i \in 1..Len(recs)
    /\ IF set
       THEN /\ lists' = Append(lists, <<>>)
            /\ recs' = [recs EXCEPT ![i].authorId = Len(lists) + 1]
            /\ res' = Result("list", Len(lists) + 1, "String")
       ELSE /\ UNCHANGED <<lists, recs>>
            /\ res' = IF recs[i].authorId = NullRef THEN Returned("null", NullRef)
                      ELSE Result("list", recs[i].authorId, "String")
    /\ op' = Call("getAuthorId", i, None, set)
    /\ UNCHANGED <<bounds, maps, origin, mset, slot, jtype>>

GetAuthorId(i, set) ==
    /\ i \in 1..Len(recs)
    /\ IF recs[i].authorId = NullRef /\ set
       THEN /\ lists' = Append(lists, <<>>)
            /\ recs' = [recs EXCEPT ![i].authorId = Len(lists) + 1]
            /\ res' = Result("list", Len(lists) + 1, "String")
       ELSE /\ UNCHANGED <<lists, recs>>
            /\ res' = IF recs[i].authorId = NullRef THEN Returned("null", NullRef)
                      ELSE Result("list", recs[i].authorId, "String")
    /\ op' = Call("getAuthorId", i, None, set)
    /\ UNCHANGED <<bounds, maps, origin, mset, slot, jtype>>

GetExtensions(i, set) ==
    /\ i \in 1..Len(recs)
    /\ IF recs[i].extensions = NullRef /\ set
       THEN /\ maps' = Append(maps, <<>>)
            /\ recs' = [recs EXCEPT ![i].extensions = Len(maps) + 1]
            /\ res' = Returned("map", Len(maps) + 1)
       ELSE /\ UNCHANGED <<maps, recs>>
            /\ res' = IF recs[i].extensions = NullRef THEN Returned("null", NullRef)
                      ELSE Returned("map", recs[i].extensions)
    /\ op' = Call("getExtensions", i, None, set)
    /\ UNCHANGED <<bounds, lists, origin, mset, slot, jtype>>

(* The caller adds to the collection the accessor just returned:           *)
(* m.getAuthorId(true).add(x), m.getExtensions(true).put(k, v).             *)
ListAdd(type, x) ==
    /\ res.kind = "list" /\ res.str = type
    /\ Len(lists[res.ref]) < MaxListLen
    /\ lists' = [lists EXCEPT ![res.ref] = Append(@, x)]
    /\ op' = Call("add", op.self, Some(x), FALSE)
    /\ UNCHANGED <<bounds, recs, maps, origin, mset, res, slot, jtype>>

MapPut(k, v) ==
    /\ res.kind = "map"
    /\ maps' = [maps EXCEPT ![res.ref] = (k :> v) @@ @]
    /\ op' = Call("put", op.self, Some(k), FALSE)
    /\ UNCHANGED <<bounds, recs, lists, origin, mset, res, slot, jtype>>

-----------------------------------------------------------------------------
(* The rendered MappingSet class: getCurieMap, getMappings,                 *)
(* getExtensionDefinitions (template lines 137-172).                        *)

GetCurieMap(set) ==
    /\ IF mset.curieMap = NullRef /\ set
       THEN /\ maps' = Append(maps, <<>>)
            /\ mset' = [mset EXCEPT !.curieMap = Len(maps) + 1]
            /\ res' = Returned("map", Len(maps) + 1)
       ELSE /\ UNCHANGED <<maps, mset>>
            /\ res' = IF mset.curieMap = NullRef THEN Returned("null", NullRef)
                      ELSE Returned("map", mset.curieMap)
    /\ op' = Call("getCurieMap", 0, None, set)
    /\ UNCHANGED <<bounds, recs, lists, origin, slot, jtype>>

GetMappings(set) ==
    /\ IF mset.mappings = NullRef /\ set
       THEN /\ lists' = Append(lists, <<>>)
            /\ mset' = [mset EXCEPT !.mappings = Len(lists) + 1]
            /\ res' = Result("list", Len(lists) + 1, "Mapping")
       ELSE /\ UNCHANGED <<lists, mset>>
            /\ res' = IF mset.mappings = NullRef THEN Returned("null", NullRef)
                      ELSE Result("list", mset.mappings, "Mapping")
    /\ op' = Call("getMappings", 0, None, set)
    /\ UNCHANGED <<bounds, recs, maps, origin, slot, jtype>>

GetExtensionDefinitions(set) ==
    /\ IF mset.extensionDefinitions = NullRef /\ set
       THEN /\ lists' = Append(lists, <<>>)
            /\ mset' = [mset EXCEPT !.extensionDefinitions = Len(lists) + 1]
            /\ res' = Result("list", Len(lists) + 1, "ExtensionDefinition")
       ELSE /\ UNCHANGED <<lists, mset>>
            /\ res' = IF mset.extensionDefinitions = NullRef THEN Returned("null", NullRef)
                      ELSE Result("list", mset.extensionDefinitions, "ExtensionDefinition")
    /\ op' = Call("getExtensionDefinitions", 0, None, set)
    /\ UNCHANGED <<bounds, recs, maps, origin, slot, jtype>>

-----------------------------------------------------------------------------
(* Mapping.toSExpr (template lines 236-282).  The field loop is unrolled by *)
(* the template over the class fields; order is the iteration order of the *)
(* extension map's entry set, which a HashMap does not fix.                 *)

AllFields == ClassFields

EncodedFields ==
    SelectSeq(ClassFields,
              LAMBDA f : f.slot # "record_id" /\ f.slot # "mapping_cardinality")

FieldIsSet(f, r) == IF f.multivalued THEN r[f.name] # NullRef ELSE IsSet(r[f.name])

SortedCopyFromThree(list) == IF Len(list) > 2 THEN Sort(list) ELSE list

SortedCopy(list) == IF Len(list) > 1 THEN Sort(list) ELSE list

FieldSegment(f, r, heap) ==
    IF f.multivalued
    THEN LET tmp == SortedCopy(heap[r[f.name]])
         IN  "(" \o Atom(f.slot) \o "("
                 \o Concat([k \in 1..Len(tmp) |-> Atom(tmp[k])]) \o "))"
    ELSE LET v == IF f.range = "Double" THEN FormatDouble(Val(r[f.name]))
                  ELSE Val(r[f.name])
         IN  "(" \o Atom(f.slot) \o Atom(v) \o ")"

ExtensionsSegment(map, order) ==
    LET entries == Sort(order)
    IN  "(10:extensions("
            \o Concat([k \in 1..Len(entries) |->
                          "(" \o Atom(entries[k]) \o Atom(map[entries[k]]) \o ")"])
            \o "))"

(* The segments appended between "(7:mapping(" and "))", each with its tag. *)
Segments(r, lheap, mheap, order) ==
    LET present == SelectSeq(EncodedFields, LAMBDA f : FieldIsSet(f, r))
    IN  [k \in 1..Len(present) |->
            [tag |-> present[k].slot, text |-> FieldSegment(present[k], r, lheap)]]
        \o (IF r.extensions # NullRef
            THEN << [tag |-> "extensions",
                     text |-> ExtensionsSegment(mheap[r.extensions], order)] >>
            ELSE <<>>)

SExprOf(r, lheap, mheap, order) ==
    LET segs == Segments(r, lheap, mheap, order)
    IN  "(7:mapping(" \o Concat([k \in 1..Len(segs) |-> segs[k].text]) \o "))"

(* All orders in which the elements of a sequence can be arranged. *)
Arrangements(seq) ==
    LET n == Len(seq)
        bij == {f \in [1..n -> 1..n] : \A a, b \in 1..n : f[a] = f[b] => a = b}
    IN  {[k \in 1..n |-> seq[f[k]]] : f \in bij}

(* Some sequence listing each element of a finite set once. *)
RECURSIVE SeqOf(_)
SeqOf(S) == IF S = {} THEN <<>> ELSE LET x == CHOOSE y \in S : TRUE IN <<x>> \o SeqOf(S \ {x})

EntryOrders(r, mheap) ==
    IF r.extensions = NullRef THEN {<<>>} ELSE Arrangements(SeqOf(DOMAIN mheap[r.extensions]))

ToSExpr(i, order) ==
    /\ i \in 1..Len(recs)
    /\ order \in EntryOrders(recs[i], maps)
    /\ res' = Result("str", NullRef, SExprOf(recs[i], lists, maps, order))
    /\ op' = Call("toSExpr", i, None, FALSE)
    /\ UNCHANGED <<bounds, recs, lists, maps, origin, mset, slot, jtype>>

-----------------------------------------------------------------------------
(* Rendering one field declaration. *)

RenderField ==
    /\ jtype = None
    /\ jtype' = Some(FieldType(slot))
    /\ UNCHANGED <<bounds, recs, lists, maps, origin, mset, op, res, slot>>

-----------------------------------------------------------------------------
(* Inputs.                                                                  *)

Mapping(id, sid, sl, p, oid, ol, c, a, sc, e) ==
    [recordId |-> id, subjectId |-> sid, subjectLabel |-> sl, predicateId |-> p,
     objectId |-> oid, objectLabel |-> ol, mappingCardinality |-> c, authorId |-> a,
     similarityScore |-> sc, extensions |-> e]

Opt(S) == {None} \cup {Some(x) : x \in S}

(* The bounds the SSSOM schema declares for similarity_score: 0.0 and 1.0. *)
SchemaBounds == Bounds(Some(0), Some(10000))

(* Bounds a schema may declare: absent, 0 or 1, with minimum <= maximum. *)
BoundConfigs ==
    {b \in [min : Opt({0, 10000}), max : Opt({0, 10000})] :
        IsSet(b.min) /\ IsSet(b.max) => Val(b.min) <= Val(b.max)}

(* Values around the bounds: -0.0001, 0, 1, 1.0001. *)
ScoreValues == {-1, 0, 10000, 10001}

Predicates == {"skos:exactMatch", "skos:broadMatch", "skos:narrowMatch",
               "rdfs:subClassOf", "ex:related"}

ScoreInputs ==
    {Mapping(None, Some("A:1"), None, Some("skos:exactMatch"), Some("B:2"), None, None,
             None, sc, None) : sc \in Opt(ScoreValues)}

(* One value inside the schema's bounds and one outside. *)
SomeScores == {0, 10001}

SharedInputs ==
    {Mapping(None, Some("A:1"), None, Some("skos:broadMatch"), Some("B:2"), None, None,
             a, Some(0), e) : a \in {None, Some(<<"a">>)}, e \in {None, Some("k" :> "v")}}

InvInputs ==
    {Mapping(x[1], Some("A:1"), sl, p, Some("B:2"), None, c, x[2], x[3], x[4]) :
        sl \in Opt({"a"}), p \in Opt(Predicates), c \in Opt({"1:1", "1:n"}),
        x \in {<<None, None, None, None>>,
               <<Some("id:1"), Some(<<"a">>), Some(8675), Some("k" :> "v")>>}}

AccInputs ==
    {Mapping(None, Some("A:1"), None, Some("skos:exactMatch"), Some("B:2"), None, None,
             a, None, e) :
        a \in {None, Some(<<>>), Some(<<"b">>)}, e \in {None, Some("k" :> "v")}}

SeqsUpTo(S, n) == UNION {[1..k -> S] : k \in 0..n}

EncInputs ==
    {Mapping(id, sid, sl, Some("skos:exactMatch"), Some("B:2"), None, c, a, sc, e) :
        id \in Opt({"id:1"}), sid \in Opt({"A:1"}), sl \in Opt({"a"}),
        c \in Opt({"1:n"}),
        a \in Opt(SeqsUpTo({"a", "ab", "b"}, MaxEncLen)),
        sc \in Opt({8675}),
        e \in Opt(UNION {[K -> {"v"}] : K \in SUBSET {"k", "Z"}})}

GenSlots ==
    {Field("f", sl, sr, r, FALSE) :
        sl \in {"curie_map", "subject_id", "mapping_date"},
        sr \in EnumRanges \cup {"string", "double", "EntityReference", "prefix"},
        r \in {"String", "Double", "Prefix", "LocalDate"}}

NoSlot == Field("", "", "", "", FALSE)
NewMappingSet == [curieMap |-> NullRef, mappings |-> NullRef, extensionDefinitions |-> NullRef]

EmptyHeap ==
    /\ recs = <<>> /\ lists = <<>> /\ maps = <<>> /\ origin = <<>>
    /\ mset = NewMappingSet
    /\ op = Call("init", 0, None, FALSE)
    /\ res = Returned("none", NullRef)

-----------------------------------------------------------------------------
(* Specifications.                                                          *)

(* Mapping objects built under the schema's bounds. *)
InitInv ==
    /\ bounds = SchemaBounds
    /\ EmptyHeap
    /\ slot = NoSlot /\ jtype = None

(* Every operation that creates a Mapping object or writes its constrained  *)
(* field, under every bounds declaration.                                   *)
Init ==
    /\ bounds \in BoundConfigs
    /\ EmptyHeap
    /\ slot = NoSlot /\ jtype = None

Next ==
    \/ recs = <<>> /\ \E in \in ScoreInputs : Build(in)
    \/ \E i \in 1..MaxRecs, v \in ScoreValues : ToBuilderBuild(i, v)
    \/ \E i \in 1..MaxRecs, v \in ScoreValues : SetSimilarityScore(i, v)
    \/ \E i \in 1..MaxRecs, v \in ScoreValues : SetSemanticSimilarityScore(i, v)
    \/ \E i \in 1..MaxRecs, p \in Opt({"skos:exactMatch"}) : InvertWith(i, p)
    \/ \E i \in 1..MaxRecs : InvertAuto(i)

Spec == Init /\ [][Next]_vars

(* Inversions followed by writes made through the inverted objects. *)
IsInverted(i) == i \in 1..Len(recs) /\ origin[i].from # 0

NextShare ==
    \/ recs = <<>> /\ \E in \in SharedInputs : Build(in)
    \/ \E i \in 1..MaxRecs, p \in Opt({"skos:narrowMatch"}) : InvertWith(i, p)
    \/ \E i \in 1..MaxRecs : InvertAuto(i)
    \/ \E i \in 1..MaxRecs, v \in {10000} : IsInverted(i) /\ SetSimilarityScore(i, v)
    \/ \E i \in 1..MaxRecs, set \in BOOLEAN : IsInverted(i) /\ GetAuthorId(i, set)
    \/ \E i \in 1..MaxRecs, set \in BOOLEAN : IsInverted(i) /\ GetExtensions(i, set)
    \/ \E x \in {"b"} : ListAdd("String", x)
    \/ \E k \in {"k"}, v \in {"w"} : MapPut(k, v)

SpecShare == InitInv /\ [][NextShare]_vars

(* Inversion of Mapping objects. *)
NextInv ==
    \/ recs = <<>> /\ \E in \in InvInputs : Build(in)
    \/ \E i \in 1..MaxRecs, p \in Opt(Predicates) : InvertWith(i, p)
    \/ \E i \in 1..MaxRecs : InvertAuto(i)

SpecInv == InitInv /\ [][NextInv]_vars

(* The initialize-if-absent accessors of Mapping and MappingSet. *)
NextAcc ==
    \/ recs = <<>> /\ \E in \in AccInputs : Build(in)
    \/ \E i \in 1..MaxRecs, set \in BOOLEAN : GetAuthorId(i, set)
    \/ \E i \in 1..MaxRecs, set \in BOOLEAN : GetExtensions(i, set)
    \/ \E set \in BOOLEAN : GetCurieMap(set)
    \/ \E set \in BOOLEAN : GetMappings(set)
    \/ \E set \in BOOLEAN : GetExtensionDefinitions(set)
    \/ \E x \in {"a", "b"} : ListAdd("String", x)
    \/ \E x \in 1..MaxRecs : x <= Len(recs) /\ ListAdd("Mapping", x)
    \/ \E x \in {"def"} : ListAdd("ExtensionDefinition", x)
    \/ \E k \in {"k"}, v \in {"v"} : MapPut(k, v)

SpecAcc == InitInv /\ [][NextAcc]_vars

(* Canonical encoding of built Mapping objects. *)
NextEnc ==
    \/ recs = <<>> /\ \E in \in EncInputs : Build(in)
    \/ \E i \in 1..MaxRecs, order \in SeqsUpTo({"k", "Z"}, 2) : ToSExpr(i, order)

SpecEnc == InitInv /\ [][NextEnc]_vars

(* Rendering the declaration of one field. *)
InitGen ==
    /\ bounds = SchemaBounds
    /\ EmptyHeap
    /\ slot \in GenSlots /\ jtype = None

NextGen == RenderField

SpecGen == InitGen /\ [][NextGen]_vars

-----------------------------------------------------------------------------
(* Properties.                                                              *)

ScoreField == ClassFields[Len(ClassFields)]
SetterNames == {"setSimilarityScore", "setSemanticSimilarityScore"}

OutOfRange(b, v) ==
    \/ IsSet(b.max) /\ v > Val(b.max)
    \/ IsSet(b.min) /\ v < Val(b.min)

(* C1: for a constrained field, whatever its bounds (0 included), the setter *)
(* called with v fails exactly when a maximum is set and v > maximum or a    *)
(* minimum is present and v < minimum, and otherwise stores v; when it      *)
(* fails the field keeps its previous value.                                *)
C1_SetterChecksBounds ==
    [][ (op'.name \in SetterNames /\ IsSlotConstrained(ScoreField, bounds)) =>
          LET i == op'.self
              v == Val(op'.arg)
          IN  IF OutOfRange(bounds, v)
              THEN res'.kind = "exc" /\ recs'[i].similarityScore = recs[i].similarityScore
              ELSE res'.kind = "void" /\ recs'[i].similarityScore = Some(v) ]_vars

(* C2: in every reachable state the constrained field of every Mapping is   *)
(* unset or within each bound that is set.                                  *)
C2_ConstrainedFieldInBounds ==
    \A i \in 1..Len(recs) :
        IsSlotConstrained(ScoreField, bounds) =>
            \/ recs[i].similarityScore = None
            \/ ~OutOfRange(bounds, Val(recs[i].similarityScore))

-----------------------------------------------------------------------------
PairedSuffixes ==
    {SubSeq(ClassFields[k].name, 8, Len(ClassFields[k].name)) :
        k \in {n \in 1..Len(ClassFields) : StartsWith(ClassFields[n].name, "subject")}}

PairedNames == UNION {{"subject" \o x, "object" \o x} : x \in PairedSuffixes}

(* C3: invert(p) with p not null returns r' with predicate p, every         *)
(* subjectX/objectX pair of r exchanged, the cardinality mirrored when set  *)
(* and unset otherwise, and every other field equal to the same field of r. *)
C3_InvertSwapsPairs ==
    (op.name = "invert" /\ IsSet(op.arg)) =>
        /\ res.kind = "rec"
        /\ LET r == recs[op.self]
               q == recs[res.ref]
           IN  /\ q.predicateId = op.arg
               /\ \A x \in PairedSuffixes :
                      /\ q["subject" \o x] = r["object" \o x]
                      /\ q["object" \o x] = r["subject" \o x]
               /\ q.mappingCardinality =
                      IF IsSet(r.mappingCardinality)
                      THEN Some(CardinalityInverse(Val(r.mappingCardinality)))
                      ELSE None
               /\ \A f \in (DOMAIN r) \ (PairedNames \cup {"predicateId", "mappingCardinality"}) :
                      q[f] = r[f]

C3_Witness ==
    /\ op.name = "invert" /\ IsSet(op.arg) /\ res.kind = "rec"
    /\ recs[op.self].subjectLabel = Some("a") /\ recs[op.self].objectLabel = None
    /\ recs[op.self].mappingCardinality = Some("1:n")
    /\ recs[op.self].authorId # NullRef
    /\ recs[res.ref].objectLabel = Some("a")
    /\ recs[res.ref].mappingCardinality = Some("n:1")

(* An inversion of an object that is itself the inversion, with an          *)
(* invertible predicate p, of some r, made with the recorded inverse of p.  *)
IsRoundTrip ==
    /\ op.name = "invert" /\ res.kind = "rec"
    /\ origin[op.self].from # 0
    /\ LET e == FromString(origin[op.self].pred)
       IN  e # None /\ Val(e).invertible /\ op.arg = Val(e).inverse

RoundTripPairsRestored ==
    \A x \in PairedSuffixes :
        /\ recs[res.ref]["subject" \o x] = recs[origin[op.self].from]["subject" \o x]
        /\ recs[res.ref]["object" \o x] = recs[origin[op.self].from]["object" \o x]

(* C4 as stated: invert(inverseOf(p)) of invert(p) of r equals r in every   *)
(* paired field and is back to predicate p.                                 *)
C4_RoundTripBackToP ==
    IsRoundTrip =>
        /\ RoundTripPairsRestored
        /\ recs[res.ref].predicateId = origin[op.self].pred

(* C4 amended: invert(inverseOf(p)) of invert(p) of r equals r in every     *)
(* paired field and has the predicate inverseOf(p).                         *)
C4_RoundTripRestoresPairs ==
    IsRoundTrip =>
        /\ RoundTripPairsRestored
        /\ recs[res.ref].predicateId = PredicateTable[Val(origin[op.self].pred)].inverse

C4_Witness ==
    /\ IsRoundTrip
    /\ origin[op.self].pred = Some("skos:broadMatch")
    /\ recs[origin[op.self].from].subjectLabel = Some("a")
    /\ recs[op.self].objectLabel = Some("a")
    /\ recs[res.ref].subjectLabel = Some("a")

(* C5: invert(p) returns null exactly when p is null; invert() returns null *)
(* exactly when the current predicate is unknown to the table or marked     *)
(* non-invertible, and otherwise returns what invert(q) returns, q being    *)
(* the recorded inverse; neither raises.                                    *)
C5_NoInverseIsNull ==
    /\ op.name = "invert" =>
          /\ res.kind \in {"null", "rec"}
          /\ res.kind = "null" <=> op.arg = None
    /\ op.name = "invertAuto" =>
          LET r == recs[op.self]
              e == FromString(r.predicateId)
          IN  /\ res.kind \in {"null", "rec"}
              /\ res.kind = "null" <=> (e = None \/ ~Val(e).invertible)
              /\ res.kind = "rec" => recs[res.ref] = Inverted(r, Val(Val(e).inverse))

C5_Witness ==
    /\ op.name = "invertAuto" /\ res.kind = "rec"
    /\ recs[op.self].predicateId = Some("skos:broadMatch")
    /\ recs[res.ref].predicateId = Some("skos:narrowMatch")

-----------------------------------------------------------------------------
(* The value of a Mapping with the contents of its collections. *)
DeepValue(rs, ls, ms, i) ==
    [rs[i] EXCEPT !.authorId = IF @ = NullRef THEN None ELSE Some(ls[@]),
                  !.extensions = IF @ = NullRef THEN None ELSE Some(ms[@])]

(* C6: an inversion leaves its input as it was and returns another object,  *)
(* and no later write made through the result (the setter, an addition to a *)
(* collection its accessors return) changes any field value of the input.   *)
C6_InputNeverModified ==
    [][ \A i \in 1..Len(recs) :
          ( \/ op'.name \in {"invert", "invertAuto"} /\ op'.self = i
            \/ /\ op'.name \in {"setSimilarityScore", "getAuthorId", "getExtensions",
                               "add", "put"}
               /\ op'.self \in 1..Len(recs)
               /\ origin[op'.self].from = i )
          => /\ DeepValue(recs', lists', maps', i) = DeepValue(recs, lists, maps, i)
             /\ res'.kind = "rec" => res'.ref # i ]_vars

-----------------------------------------------------------------------------
(* The arrangements of the elements of the author list of r (none: no list). *)
ListArrangements(r) ==
    IF r.authorId = NullRef THEN {<<>>} ELSE Arrangements(lists[r.authorId])

WithList(r, perm) ==
    IF r.authorId = NullRef THEN lists ELSE [lists EXCEPT ![r.authorId] = perm]

(* C7: the output of toSExpr is the same for every arrangement of the       *)
(* elements of a multivalued field and every order of the extension map's   *)
(* entries, and toSExpr leaves the object's own collections as they were.   *)
C7_OrderIndependent ==
    /\ [](op.name = "toSExpr" =>
            \A perm \in ListArrangements(recs[op.self]),
               order \in EntryOrders(recs[op.self], maps) :
                SExprOf(recs[op.self], WithList(recs[op.self], perm), maps, order) = res.str)
    /\ [][op'.name = "toSExpr" => lists' = lists /\ maps' = maps /\ recs' = recs]_vars

C7_Witness ==
    /\ op.name = "toSExpr"
    /\ recs[op.self].authorId # NullRef /\ recs[op.self].extensions # NullRef
    /\ lists[recs[op.self].authorId] = <<"b", "ab", "a">>
    /\ DOMAIN maps[recs[op.self].extensions] = {"k", "Z"}
    /\ res.str = "(7:mapping((12:predicate_id15:skos:exactMatch)(9:object_id3:B:2)"
                   \o "(9:author_id(1:a2:ab1:b))(10:extensions((1:Z1:v)(1:k1:v)))))"

-----------------------------------------------------------------------------
(* The collection a field of an object refers to, before or after a call. *)
FieldOf(c, rs, ms) ==
    CASE c.name = "getAuthorId" -> rs[c.self].authorId
      [] c.name = "getExtensions" -> rs[c.self].extensions
      [] c.name = "getCurieMap" -> ms.curieMap
      [] c.name = "getMappings" -> ms.mappings
      [] c.name = "getExtensionDefinitions" -> ms.extensionDefinitions

ListAccessors == {"getAuthorId", "getMappings", "getExtensionDefinitions"}
MapAccessors == {"getExtensions", "getCurieMap"}

IsPrefix(a, b) == Len(a) <= Len(b) /\ SubSeq(b, 1, Len(a)) = a
IsSubMap(a, b) == \A k \in DOMAIN a : k \in DOMAIN b /\ b[k] = a[k]

(* Every step keeps what the list (map) fields of all objects already hold. *)
ListFieldKept(before, after) ==
    before # NullRef => after # NullRef /\ IsPrefix(lists[before], lists'[after])

MapFieldKept(before, after) ==
    before # NullRef => after # NullRef /\ IsSubMap(maps[before], maps'[after])

(* C8: get(flag) on an unset field makes it an empty collection and returns *)
(* it when flag is true, leaves it unset and returns null when flag is      *)
(* false; a set field is returned with its contents unchanged; no step      *)
(* loses an element added earlier.                                          *)
C8_AccessorKeepsContents ==
    [][ /\ op'.name \in ListAccessors \cup MapAccessors =>
             LET before == FieldOf(op', recs, mset)
                 after == FieldOf(op', recs', mset')
                 heap == IF op'.name \in ListAccessors THEN lists ELSE maps
                 heap2 == IF op'.name \in ListAccessors THEN lists' ELSE maps'
             IN  IF before = NullRef
                 THEN IF op'.flag
                      THEN /\ after # NullRef /\ after \notin DOMAIN heap
                           /\ heap2[after] = <<>>
                           /\ res'.kind \in {"list", "map"} /\ res'.ref = after
                      ELSE after = NullRef /\ res'.kind = "null"
                 ELSE /\ after = before /\ heap2[after] = heap[before]
                      /\ res'.kind \in {"list", "map"} /\ res'.ref = before
        /\ \A i \in 1..Len(recs) :
              /\ ListFieldKept(recs[i].authorId, recs'[i].authorId)
              /\ MapFieldKept(recs[i].extensions, recs'[i].extensions)
        /\ MapFieldKept(mset.curieMap, mset'.curieMap)
        /\ ListFieldKept(mset.mappings, mset'.mappings)
        /\ ListFieldKept(mset.extensionDefinitions, mset'.extensionDefinitions) ]_vars

C8_Witness ==
    /\ op.name = "getAuthorId" /\ op.flag /\ res.kind = "list"
    /\ lists[res.ref] = <<"b", "a">>
    /\ mset.mappings # NullRef /\ lists[mset.mappings] = <<1>>
    /\ mset.curieMap # NullRef /\ DOMAIN maps[mset.curieMap] = {"k"}

-----------------------------------------------------------------------------
(* The places where pat occurs in str. *)
Places(str, pat) ==
    {k \in 1..(Len(str) - Len(pat) + 1) : SubSeq(str, k, k + Len(pat) - 1) = pat}

(* The text that opens the segment of a slot. *)
Tag(slotname) == "(" \o Atom(slotname)

Encoded(f) == f.slot \notin {"record_id", "mapping_cardinality"}

(* C9: the output holds exactly one tagged segment for each set field other *)
(* than record_id and mapping_cardinality, in the order of the class, and   *)
(* none for any other field; objects that differ only in record_id or       *)
(* mapping_cardinality have the same output.                                *)
C9_SegmentsOfSetFields ==
    op.name = "toSExpr" =>
        LET r == recs[op.self]
            n == Len(ClassFields)
            shown == [k \in 1..n |-> Encoded(ClassFields[k]) /\ FieldIsSet(ClassFields[k], r)]
            at == [k \in 1..n |-> Places(res.str, Tag(ClassFields[k].slot))]
            ext == Places(res.str, Tag("extensions"))
        IN  /\ \A k \in 1..n : Cardinality(at[k]) = IF shown[k] THEN 1 ELSE 0
            /\ Cardinality(ext) = IF r.extensions # NullRef THEN 1 ELSE 0
            /\ \A j, k \in 1..n :
                 (j < k /\ shown[j] /\ shown[k]) => \A x \in at[j], y \in at[k] : x < y
            /\ \A k \in 1..n : \A x \in at[k], y \in ext : x < y
            /\ \A id \in Opt({"id:2"}), c \in Opt({"1:1"}),
                  order \in EntryOrders(r, maps) :
                 SExprOf([r EXCEPT !.recordId = id, !.mappingCardinality = c],
                         lists, maps, order) = res.str

C9_Witness ==
    /\ op.name = "toSExpr"
    /\ recs[op.self].recordId = Some("id:1")
    /\ recs[op.self].mappingCardinality = Some("1:n")
    /\ recs[op.self].subjectLabel = None /\ recs[op.self].authorId = NullRef
    /\ recs[op.self].extensions = NullRef
    /\ res.str = "(7:mapping((10:subject_id3:A:1)(12:predicate_id15:skos:exactMatch)"
                   \o "(9:object_id3:B:2)(16:similarity_score5:0.868)))"

-----------------------------------------------------------------------------
(* C10 as stated: the field of the slot curie_map is a map of strings for   *)
(* every declared range; every other slot with an unrecognized range keeps  *)
(* the base generator's type.                                               *)
C10_CurieMapAlwaysMap ==
    IsSet(jtype) =>
        /\ slot.slot = "curie_map" => Val(jtype) = "Map<String,String>"
        /\ (slot.slot # "curie_map" /\ slot.srange \notin EnumRanges) => Val(jtype) = slot.range

(* C10 amended: the field of the slot curie_map is a map of strings for     *)
(* every declared range other than date and the four enumeration ranges,    *)
(* which come first; every other slot with an unrecognized range keeps the  *)
(* base generator's type; a type is always produced.                        *)
C10_CurieMapUnlessEnumRange ==
    /\ IsSet(jtype) =>
        /\ (slot.slot = "curie_map" /\ slot.srange \notin EnumRanges)
              => Val(jtype) = "Map<String,String>"
        /\ (slot.slot # "curie_map" /\ slot.srange \notin EnumRanges) => Val(jtype) = slot.range
    /\ jtype = None => ENABLED RenderField

C10_Witness ==
    /\ jtype = Some("Map<String,String>")
    /\ slot.slot = "curie_map" /\ slot.srange = "prefix" /\ slot.range = "Prefix"

====
